---- MODULE Spec2Model ----
(***************************************************************************)
(* Unified Bed Leveling motion: the cell-boundary splitter                 *)
(* (unified_bed_leveling::line_to_destination_cartesian) and the           *)
(* fixed-length segmenter (line_to_destination_segmented) of               *)
(* Marlin/src/feature/bedlevel/ubl/ubl_motion.cpp.                         *)
(*                                                                         *)
(* Floats are modelled as exact extended rationals <<n, d>>: d > 0 and     *)
(* gcd(n, d) = 1 for a finite value, <<1, 0>> and <<-1, 0>> for the two    *)
(* infinities and <<0, 0>> for NaN.  Rounding error and the sign of zero   *)
(* are not modelled.  The extruder axis is left out.                       *)
(***************************************************************************)
EXTENDS Integers, Sequences, FiniteSets, TLC

VARIABLES
    mode,              \* "cartesian" (!UBL_SEGMENTED build) or "segmented"
    zraise,            \* UBL_Z_RAISE_WHEN_OFF_MESH is defined
    kin,               \* kinematic class of a segmented build
    kfeed,             \* segments_per_second / scaled_fr_mm_s of the request
    leveling_active,   \* planner.leveling_active
    z_values,          \* the mesh table
    current_position,  \* [x, y, z]
    destination,       \* [x, y, z]
    pc,                \* position in the running function
    icell,             \* [x, y] cell walked by the loops
    cnt,               \* [x, y] remaining crossings of the general loop
    loc,               \* the splitter's const locals, set on entry
    segments,          \* uint16_t segments of the segmenter
    raw,               \* pose walked by the segmenter
    cell,              \* [x, y] offset of raw in the current cell
    z_cxy0,            \* intercept of the incremental interpolation
    z_cxym,            \* slope of the incremental interpolation
    corners,           \* the four samples read for the current cell
    sink,              \* the poses handed to the planner, in order
    ret,               \* "true" or "false" once line_to_destination_segmented returned
    start0,            \* current_position on entry
    nreach,            \* evaluations of position_is_reachable
    nseg0,             \* segment count right after NOLESS(segments, 1U)
    beyond,            \* what lies behind the mesh table, once read
    reads              \* the <<column, row>> indices of z_values the segmenter has read

vars == <<mode, zraise, kin, kfeed, leveling_active, z_values, current_position,
          destination, pc, icell, cnt, loc, segments, raw, cell, z_cxy0, z_cxym,
          corners, sink, ret, start0, nreach, nseg0, beyond, reads>>

----------------------------------------------------------------------------
(* Exact extended-rational arithmetic standing for float.                   *)

Abs(n) == IF n < 0 THEN -n ELSE n

Sgn(n) == IF n < 0 THEN -1 ELSE IF n > 0 THEN 1 ELSE 0

RECURSIVE GCD(_, _)
GCD(a, b) == IF b = 0 THEN a ELSE GCD(b, a % b)

Norm(n, d) ==
    IF d = 0 THEN <<Sgn(n), 0>>
    ELSE LET g == GCD(Abs(n), Abs(d))
         IN  <<(Sgn(d) * n) \div g, Abs(d) \div g>>

R(n) == <<n, 1>>

NaN == <<0, 0>>

isnan(a) == a = NaN

isinf(a) == a[2] = 0 /\ a[1] # 0

FNeg(a) == <<-a[1], a[2]>>

FAdd(a, b) ==
    IF isnan(a) \/ isnan(b) THEN NaN
    ELSE IF isinf(a) THEN (IF isinf(b) /\ a # b THEN NaN ELSE a)
    ELSE IF isinf(b) THEN b
    ELSE Norm(a[1] * b[2] + b[1] * a[2], a[2] * b[2])

FSub(a, b) == FAdd(a, FNeg(b))

FMul(a, b) == Norm(a[1] * b[1], a[2] * b[2])

RECIPROCAL(a) == Norm(a[2], a[1])

FDiv(a, b) == FMul(a, RECIPROCAL(b))

FLt(a, b) ==
    /\ ~isnan(a)
    /\ ~isnan(b)
    /\ a # b
    /\ CASE isinf(a) -> a[1] < 0
         [] isinf(b) -> b[1] > 0
         [] OTHER    -> a[1] * b[2] < b[1] * a[2]

FLe(a, b) == FLt(a, b) \/ (a = b /\ ~isnan(a))

FEq(a, b) == a = b /\ ~isnan(a)

FNe(a, b) == ~FEq(a, b)

WITHIN(v, lo, hi) == FLe(lo, v) /\ FLe(v, hi)

\* FLOOR of a finite value, as an integer
Floor(a) == a[1] \div a[2]

\* conversion of a finite float to an integer type: truncation toward zero
Trunc(a) == IF a[1] < 0 THEN -((-a[1]) \div a[2]) ELSE a[1] \div a[2]

constrain(v, lo, hi) == IF v < lo THEN lo ELSE IF v > hi THEN hi ELSE v

\* floor of the square root of a natural number, by bisection on [lo, hi]
RECURSIVE ISqrtIn(_, _, _)
ISqrtIn(n, lo, hi) ==
    IF lo >= hi THEN lo
    ELSE LET mid == (lo + hi + 1) \div 2
         IN  IF mid * mid <= n THEN ISqrtIn(n, mid, hi) ELSE ISqrtIn(n, lo, mid - 1)

ISqrt(n) == ISqrtIn(n, 0, IF n < 46340 THEN n ELSE 46340)

\* A square root is kept exact as <<r, q>>, standing for r * sqrt(q) with r a
\* finite rational >= 0 and q a natural number; q = 1 when the root is rational.
SQRT(a) ==
    LET n == a[1] * a[2]
        s == ISqrt(n)
    IN  IF s * s = n THEN <<Norm(s, a[2]), 1>> ELSE <<Norm(1, a[2]), n>>

SurdMul(v, a) == <<FMul(v[1], a), v[2]>>

\* v <= a and a <= v for v a root and a a finite rational >= 0
SurdLe(v, a) ==
    IF v[2] = 1 THEN FLe(v[1], a)
    ELSE FLe(FMul(FMul(v[1], v[1]), R(v[2])), FMul(a, a))

SurdGe(v, a) ==
    IF v[2] = 1 THEN FLe(a, v[1])
    ELSE FLe(FMul(a, a), FMul(FMul(v[1], v[1]), R(v[2])))

\* lround of a root: the nearest integer, halves away from zero
LROUND(v) ==
    IF v[2] = 1 THEN (2 * v[1][1] + v[1][2]) \div (2 * v[1][2])
    ELSE LET sq4 == FMul(R(4 * v[2]), FMul(v[1], v[1]))
         IN  (ISqrt(Floor(sq4)) + 1) \div 2

----------------------------------------------------------------------------
(* Mesh geometry and the planner's scaling, as the specification gives them *)

\* two builds: the splitter on a 50 mm mesh, the segmenter on a 5 mm mesh
MESH_X_DIST == IF mode = "cartesian" THEN 50 ELSE 5

MESH_Y_DIST == MESH_X_DIST

MESH_MIN_X == 0

MESH_MIN_Y == 0

GRID_MAX_CELLS_X == 2

GRID_MAX_CELLS_Y == 2

FadeHeight == 10

UBL_Z_RAISE_WHEN_OFF_MESH == R(3)

get_mesh_x(i) == R(MESH_MIN_X + i * MESH_X_DIST)

get_mesh_y(j) == R(MESH_MIN_Y + j * MESH_Y_DIST)

cell_index_x_raw(x) == Floor(FMul(FSub(x, R(MESH_MIN_X)), RECIPROCAL(R(MESH_X_DIST))))

cell_index_y_raw(y) == Floor(FMul(FSub(y, R(MESH_MIN_Y)), RECIPROCAL(R(MESH_Y_DIST))))

cell_index_x_valid(x) ==
    cell_index_x_raw(x) >= 0 /\ cell_index_x_raw(x) <= GRID_MAX_CELLS_X - 1

cell_index_y_valid(y) ==
    cell_index_y_raw(y) >= 0 /\ cell_index_y_raw(y) <= GRID_MAX_CELLS_Y - 1

cell_indexes(p) ==
    [x |-> constrain(cell_index_x_raw(p.x), 0, GRID_MAX_CELLS_X - 1),
     y |-> constrain(cell_index_y_raw(p.y), 0, GRID_MAX_CELLS_Y - 1)]

InTable(i, j) == i \in 0..GRID_MAX_CELLS_X /\ j \in 0..GRID_MAX_CELLS_Y

\* an undefined sample counts as 0 at the point of use
ZeroIfNaN(v) == IF isnan(v) THEN R(0) ELSE v

SampleOr0(i, j) == IF InTable(i, j) THEN ZeroIfNaN(z_values[i][j]) ELSE R(0)

z_correction_for_x_on_horizontal_mesh_line(rx0, x1_i, yi) ==
    LET xratio == FMul(FSub(rx0, get_mesh_x(x1_i)), RECIPROCAL(R(MESH_X_DIST)))
        z1     == SampleOr0(x1_i, yi)
    IN  FAdd(z1, FMul(xratio, FSub(SampleOr0(x1_i + 1, yi), z1)))

z_correction_for_y_on_vertical_mesh_line(ry0, xi, y1_i) ==
    LET yratio == FMul(FSub(ry0, get_mesh_y(y1_i)), RECIPROCAL(R(MESH_Y_DIST)))
        z1     == SampleOr0(xi, y1_i)
    IN  FAdd(z1, FMul(yratio, FSub(SampleOr0(xi, y1_i + 1), z1)))

fade_scaling_factor_for_z(z) ==
    IF FLe(z, R(0)) THEN R(1)
    ELSE IF FLe(R(FadeHeight), z) THEN R(0)
    ELSE FSub(R(1), FDiv(z, R(FadeHeight)))

leveling_active_at_z(z) == FLt(z, R(FadeHeight))

----------------------------------------------------------------------------
(* The Motion Sink: planner.buffer_segment / planner.buffer_line.  Each call *)
(* is logged with the pose handed over, the Z the pose had before the mesh   *)
(* correction was added (base) and the sink's answer (ok).                   *)

Emit(px, py, pz, basez, accepted) ==
    Append(sink, [x |-> px, y |-> py, z |-> pz, base |-> basez, ok |-> accepted])

----------------------------------------------------------------------------
(* line_to_destination_cartesian: values fixed on entry.  start and end are  *)
(* current_position and destination (position modifiers change neither).     *)

istart == cell_indexes(current_position)

iend == cell_indexes(destination)

dist == [x |-> FSub(destination.x, current_position.x),
         y |-> FSub(destination.y, current_position.y)]

neg == [x |-> FLt(dist.x, R(0)), y |-> FLt(dist.y, R(0))]

ineg == [x |-> IF neg.x THEN 1 ELSE 0, y |-> IF neg.y THEN 1 ELSE 0]

sign == [x |-> IF neg.x THEN -1 ELSE 1, y |-> IF neg.y THEN -1 ELSE 1]

iadd == [x |-> IF iend.x = istart.x THEN 0 ELSE sign.x,
         y |-> IF iend.y = istart.y THEN 0 ELSE sign.y]

ad == [x |-> FMul(R(sign.x), dist.x), y |-> FMul(R(sign.y), dist.y)]

use_x_dist == FLt(ad.y, ad.x)

z_normalized_dist ==
    FDiv(FSub(destination.z, current_position.z),
         IF use_x_dist THEN dist.x ELSE dist.y)

\* extruder travel of the request; only its being finite matters
e_total == R(1)

e_normalized_dist == FDiv(e_total, IF use_x_dist THEN dist.x ELSE dist.y)

inf_normalized_flag == isinf(e_normalized_dist)

ratio == FDiv(dist.y, dist.x)

c == FSub(current_position.y, FMul(ratio, current_position.x))

inf_ratio_flag == isinf(ratio)

\* Z of a sub-move at (dx, dy) before the mesh correction is added
SubMoveZ(dx, dy) ==
    IF ~loc.inf_normalized_flag
    THEN LET on_axis_distance == IF loc.use_x_dist THEN FSub(dx, current_position.x)
                                               ELSE FSub(dy, current_position.y)
         IN  FAdd(current_position.z, FMul(on_axis_distance, loc.z_normalized_dist))
    ELSE destination.z

\* mutant: the X fraction used for both interpolations
FinalZ0_XOnly ==
    LET xratio == FMul(FSub(destination.x, get_mesh_x(loc.iend.x)), RECIPROCAL(R(MESH_X_DIST)))
        z1 == FAdd(z_values[loc.iend.x][loc.iend.y],
                   FMul(xratio, FSub(z_values[loc.iend.x + 1][loc.iend.y], z_values[loc.iend.x][loc.iend.y])))
        z2 == FAdd(z_values[loc.iend.x][loc.iend.y + 1],
                   FMul(xratio, FSub(z_values[loc.iend.x + 1][loc.iend.y + 1], z_values[loc.iend.x][loc.iend.y + 1])))
    IN  FMul(FAdd(z1, FMul(FSub(z2, z1), xratio)), fade_scaling_factor_for_z(destination.z))

\* bilinear correction of FINAL_MOVE, before the isnan test
FinalZ0 ==
    LET xratio == FMul(FSub(destination.x, get_mesh_x(loc.iend.x)), RECIPROCAL(R(MESH_X_DIST)))
        yratio == FMul(FSub(destination.y, get_mesh_y(loc.iend.y)), RECIPROCAL(R(MESH_Y_DIST)))
        z1 == FAdd(z_values[loc.iend.x][loc.iend.y],
                   FMul(xratio, FSub(z_values[loc.iend.x + 1][loc.iend.y], z_values[loc.iend.x][loc.iend.y])))
        z2 == FAdd(z_values[loc.iend.x][loc.iend.y + 1],
                   FMul(xratio, FSub(z_values[loc.iend.x + 1][loc.iend.y + 1], z_values[loc.iend.x][loc.iend.y + 1])))
    IN  FMul(FAdd(z1, FMul(FSub(z2, z1), yratio)), fade_scaling_factor_for_z(destination.z))

OffMesh == ~cell_index_x_valid(destination.x) \/ ~cell_index_y_valid(destination.y)

\* mutant: the isnan test of line 98 is missing
FinalCorrection_NoNaNTest ==
    IF zraise /\ OffMesh THEN UBL_Z_RAISE_WHEN_OFF_MESH ELSE FinalZ0

FinalCorrection ==
    IF zraise /\ OffMesh THEN UBL_Z_RAISE_WHEN_OFF_MESH
    ELSE IF ~isnan(FinalZ0) THEN FinalZ0
    ELSE R(0)

\* the const locals of lines 64 and 109-139
Locals ==
    [iend |-> iend, neg |-> neg, ineg |-> ineg, iadd |-> iadd,
     use_x_dist |-> use_x_dist, z_normalized_dist |-> z_normalized_dist,
     inf_normalized_flag |-> inf_normalized_flag, ratio |-> ratio, c |-> c,
     inf_ratio_flag |-> inf_ratio_flag]

\* before entry the locals hold nothing
NoLocals ==
    [iend |-> [x |-> 0, y |-> 0], neg |-> [x |-> FALSE, y |-> FALSE],
     ineg |-> [x |-> 0, y |-> 0], iadd |-> [x |-> 0, y |-> 0],
     use_x_dist |-> FALSE, z_normalized_dist |-> R(0),
     inf_normalized_flag |-> FALSE, ratio |-> R(0), c |-> R(0),
     inf_ratio_flag |-> FALSE]

CartUnchanged ==
    UNCHANGED <<mode, zraise, kin, kfeed, leveling_active, z_values, destination,
                loc, segments, raw, cell, z_cxy0, z_cxym, corners, ret, start0, nreach,
                nseg0, beyond, reads>>

\* lines 64-67, 147-148, 205-206, 255-257: classify the move
CartBegin ==
    /\ pc = "idle"
    /\ mode = "cartesian"
    /\ IF istart = iend
       THEN pc' = "final" /\ UNCHANGED <<icell, cnt>>
       ELSE IF iadd.x = 0
       THEN /\ pc' = "vloop"
            /\ icell' = [x |-> istart.x, y |-> istart.y + ineg.y]
            /\ UNCHANGED cnt
       ELSE IF iadd.y = 0
       THEN /\ pc' = "hloop"
            /\ icell' = [x |-> istart.x + ineg.x, y |-> istart.y]
            /\ UNCHANGED cnt
       ELSE /\ pc' = "gloop"
            /\ cnt' = [x |-> Abs(istart.x - iend.x), y |-> Abs(istart.y - iend.y)]
            /\ icell' = [x |-> istart.x + ineg.x, y |-> istart.y + ineg.y]
    /\ loc' = Locals
    /\ UNCHANGED <<mode, zraise, kin, kfeed, leveling_active, z_values, destination,
                   segments, raw, cell, z_cxy0, z_cxym, corners, ret, start0, nreach,
                   nseg0, beyond, reads, current_position, sink>>

\* lines 149-191: one iteration of the vertical loop
VerticalStep ==
    /\ pc = "vloop"
    /\ icell.y # loc.iend.y + loc.ineg.y
    /\ LET icy == icell.y + loc.iadd.y
           next_mesh_line_y == get_mesh_y(icy)
           destx == IF loc.inf_ratio_flag THEN current_position.x
                    ELSE FDiv(FSub(next_mesh_line_y, loc.c), loc.ratio)
           z0raw == FMul(z_correction_for_x_on_horizontal_mesh_line(destx, icell.x, icy),
                         fade_scaling_factor_for_z(destination.z))
           z0 == IF isnan(z0raw) THEN R(0) ELSE z0raw
           desty == get_mesh_y(icy)
           base == SubMoveZ(destx, desty)
       IN  /\ icell' = [icell EXCEPT !.y = icy]
           /\ IF FNe(desty, current_position.y)
              THEN \E accepted \in BOOLEAN :
                       sink' = Emit(destx, desty, FAdd(base, z0), base, accepted)
              ELSE UNCHANGED sink
    /\ UNCHANGED <<pc, cnt, current_position>>
    /\ CartUnchanged

\* line 149: the vertical loop ends
VerticalExit ==
    /\ pc = "vloop"
    /\ icell.y = loc.iend.y + loc.ineg.y
    /\ pc' = "check"
    /\ UNCHANGED <<icell, cnt, current_position, sink>>
    /\ CartUnchanged

\* lines 208-242: one iteration of the horizontal loop
HorizontalStep ==
    /\ pc = "hloop"
    /\ icell.x # loc.iend.x + loc.ineg.x
    /\ LET icx == icell.x + loc.iadd.x
           destx == get_mesh_x(icx)
           desty == FAdd(FMul(loc.ratio, destx), loc.c)
           z0raw == FMul(z_correction_for_y_on_vertical_mesh_line(desty, icx, icell.y),
                         fade_scaling_factor_for_z(destination.z))
           z0 == IF isnan(z0raw) THEN R(0) ELSE z0raw
           base == SubMoveZ(destx, desty)
       IN  /\ icell' = [icell EXCEPT !.x = icx]
           /\ IF FNe(destx, current_position.x)
              THEN \E accepted \in BOOLEAN :
                       /\ sink' = Emit(destx, desty, FAdd(base, z0), base, accepted)
                       /\ pc' = IF accepted THEN "hloop" ELSE "check"
              ELSE UNCHANGED <<sink, pc>>
    /\ UNCHANGED <<cnt, current_position>>
    /\ CartUnchanged

\* line 208: the horizontal loop ends
HorizontalExit ==
    /\ pc = "hloop"
    /\ icell.x = loc.iend.x + loc.ineg.x
    /\ pc' = "check"
    /\ UNCHANGED <<icell, cnt, current_position, sink>>
    /\ CartUnchanged

\* mutant: the test for the line hit first is inverted
GeneralStep_WrongFirst ==
    /\ pc = "gloop"
    /\ (cnt.x # 0 \/ cnt.y # 0)
    /\ LET next_mesh_line_x == get_mesh_x(icell.x + loc.iadd.x)
           next_mesh_line_y == get_mesh_y(icell.y + loc.iadd.y)
           yAtX == FAdd(FMul(loc.ratio, next_mesh_line_x), loc.c)
           xAtY == FDiv(FSub(next_mesh_line_y, loc.c), loc.ratio)
           hitY == (loc.neg.x # FLt(next_mesh_line_x, xAtY))
           destx == IF hitY THEN xAtY ELSE next_mesh_line_x
           desty == IF hitY THEN next_mesh_line_y ELSE yAtX
           z0raw == IF hitY
                    THEN FMul(z_correction_for_x_on_horizontal_mesh_line(
                                  xAtY, icell.x - loc.ineg.x, icell.y + loc.iadd.y),
                              fade_scaling_factor_for_z(destination.z))
                    ELSE FMul(z_correction_for_y_on_vertical_mesh_line(
                                  yAtX, icell.x + loc.iadd.x, icell.y - loc.ineg.y),
                              fade_scaling_factor_for_z(destination.z))
           z0 == IF isnan(z0raw) THEN R(0) ELSE z0raw
           base == SubMoveZ(destx, desty)
           ncell == IF hitY THEN [icell EXCEPT !.y = icell.y + loc.iadd.y]
                            ELSE [icell EXCEPT !.x = icell.x + loc.iadd.x]
           ncnt == IF hitY THEN [cnt EXCEPT !.y = cnt.y - 1]
                           ELSE [cnt EXCEPT !.x = cnt.x - 1]
       IN  \E accepted \in BOOLEAN :
               /\ sink' = Emit(destx, desty, FAdd(base, z0), base, accepted)
               /\ IF accepted
                  THEN /\ icell' = ncell
                       /\ cnt' = ncnt
                       /\ pc' = IF ncnt.x < 0 \/ ncnt.y < 0 THEN "check" ELSE "gloop"
                  ELSE /\ pc' = "check"
                       /\ UNCHANGED <<icell, cnt>>
    /\ UNCHANGED current_position
    /\ CartUnchanged

\* mutant: cnt.y-- of line 295 is missing
GeneralStep_NoCountdown ==
    /\ pc = "gloop"
    /\ (cnt.x # 0 \/ cnt.y # 0)
    /\ LET next_mesh_line_x == get_mesh_x(icell.x + loc.iadd.x)
           next_mesh_line_y == get_mesh_y(icell.y + loc.iadd.y)
           yAtX == FAdd(FMul(loc.ratio, next_mesh_line_x), loc.c)
           xAtY == FDiv(FSub(next_mesh_line_y, loc.c), loc.ratio)
           hitY == (loc.neg.x = FLt(next_mesh_line_x, xAtY))
           destx == IF hitY THEN xAtY ELSE next_mesh_line_x
           desty == IF hitY THEN next_mesh_line_y ELSE yAtX
           z0raw == IF hitY
                    THEN FMul(z_correction_for_x_on_horizontal_mesh_line(
                                  xAtY, icell.x - loc.ineg.x, icell.y + loc.iadd.y),
                              fade_scaling_factor_for_z(destination.z))
                    ELSE FMul(z_correction_for_y_on_vertical_mesh_line(
                                  yAtX, icell.x + loc.iadd.x, icell.y - loc.ineg.y),
                              fade_scaling_factor_for_z(destination.z))
           z0 == IF isnan(z0raw) THEN R(0) ELSE z0raw
           base == SubMoveZ(destx, desty)
           ncell == IF hitY THEN [icell EXCEPT !.y = icell.y + loc.iadd.y]
                            ELSE [icell EXCEPT !.x = icell.x + loc.iadd.x]
           ncnt == IF hitY THEN cnt
                           ELSE [cnt EXCEPT !.x = cnt.x - 1]
       IN  \E accepted \in BOOLEAN :
               /\ sink' = Emit(destx, desty, FAdd(base, z0), base, accepted)
               /\ IF accepted
                  THEN /\ icell' = ncell
                       /\ cnt' = ncnt
                       /\ pc' = IF ncnt.x < 0 \/ ncnt.y < 0 THEN "check" ELSE "gloop"
                  ELSE /\ pc' = "check"
                       /\ UNCHANGED <<icell, cnt>>
    /\ UNCHANGED current_position
    /\ CartUnchanged

\* lines 259-326: one iteration of the general loop
GeneralStep ==
    /\ pc = "gloop"
    /\ (cnt.x # 0 \/ cnt.y # 0)
    /\ LET next_mesh_line_x == get_mesh_x(icell.x + loc.iadd.x)
           next_mesh_line_y == get_mesh_y(icell.y + loc.iadd.y)
           yAtX == FAdd(FMul(loc.ratio, next_mesh_line_x), loc.c)
           xAtY == FDiv(FSub(next_mesh_line_y, loc.c), loc.ratio)
           hitY == (loc.neg.x = FLt(next_mesh_line_x, xAtY))
           destx == IF hitY THEN xAtY ELSE next_mesh_line_x
           desty == IF hitY THEN next_mesh_line_y ELSE yAtX
           z0raw == IF hitY
                    THEN FMul(z_correction_for_x_on_horizontal_mesh_line(
                                  xAtY, icell.x - loc.ineg.x, icell.y + loc.iadd.y),
                              fade_scaling_factor_for_z(destination.z))
                    ELSE FMul(z_correction_for_y_on_vertical_mesh_line(
                                  yAtX, icell.x + loc.iadd.x, icell.y - loc.ineg.y),
                              fade_scaling_factor_for_z(destination.z))
           z0 == IF isnan(z0raw) THEN R(0) ELSE z0raw
           base == SubMoveZ(destx, desty)
           ncell == IF hitY THEN [icell EXCEPT !.y = icell.y + loc.iadd.y]
                            ELSE [icell EXCEPT !.x = icell.x + loc.iadd.x]
           ncnt == IF hitY THEN [cnt EXCEPT !.y = cnt.y - 1]
                           ELSE [cnt EXCEPT !.x = cnt.x - 1]
       IN  \E accepted \in BOOLEAN :
               /\ sink' = Emit(destx, desty, FAdd(base, z0), base, accepted)
               /\ IF accepted
                  THEN /\ icell' = ncell
                       /\ cnt' = ncnt
                       /\ pc' = IF ncnt.x < 0 \/ ncnt.y < 0 THEN "check" ELSE "gloop"
                  ELSE /\ pc' = "check"
                       /\ UNCHANGED <<icell, cnt>>
    /\ UNCHANGED current_position
    /\ CartUnchanged

\* line 259: the general loop ends
GeneralExit ==
    /\ pc = "gloop"
    /\ cnt.x = 0
    /\ cnt.y = 0
    /\ pc' = "check"
    /\ UNCHANGED <<icell, cnt, current_position, sink>>
    /\ CartUnchanged

\* lines 194-198, 244-248, 328-331: at the final destination?
CheckArrived ==
    /\ pc = "check"
    /\ IF FNe(current_position.x, destination.x) \/ FNe(current_position.y, destination.y)
       THEN pc' = "final" /\ UNCHANGED current_position
       ELSE pc' = "done" /\ current_position' = destination
    /\ UNCHANGED <<icell, cnt, sink>>
    /\ CartUnchanged

\* mutant: the remainder of the move is never emitted
FinalMove_Dropped ==
    /\ pc = "final"
    /\ current_position' = destination
    /\ pc' = "done"
    /\ UNCHANGED <<icell, cnt, sink>>
    /\ CartUnchanged

\* lines 69-101: FINAL_MOVE
FinalMove ==
    /\ pc = "final"
    /\ \E accepted \in BOOLEAN :
           sink' = Emit(destination.x, destination.y,
                        FAdd(destination.z, FinalCorrection), destination.z, accepted)
    /\ current_position' = destination
    /\ pc' = "done"
    /\ UNCHANGED <<icell, cnt>>
    /\ CartUnchanged

----------------------------------------------------------------------------
(* line_to_destination_segmented                                            *)

X_MIN_POS == -3

X_MAX_POS == 13

position_is_reachable(p) ==
    /\ WITHIN(p.x, R(X_MIN_POS), R(X_MAX_POS))
    /\ WITHIN(p.y, R(X_MIN_POS), R(X_MAX_POS))

IS_KINEMATIC == kin \in {"scara", "delta"}

\* a Cartesian build may configure its own length (line 343)
LEVELED_SEGMENT_LENGTH == <<1, 10>>

\* lines 336-348
DELTA_SEGMENT_MIN_LENGTH ==
    CASE kin = "scara"   -> <<1, 4>>
      [] kin = "delta"   -> <<1, 10>>
      [] kin = "leveled" -> LEVELED_SEGMENT_LENGTH
      [] OTHER           -> R(1)

Uint16(n) == n % 65536

total == [x |-> FSub(destination.x, current_position.x),
          y |-> FSub(destination.y, current_position.y),
          z |-> FSub(destination.z, current_position.z)]

cart_xy_mm_2 == FAdd(FMul(total.x, total.x), FMul(total.y, total.y))

cart_xy_mm == SQRT(cart_xy_mm_2)

NOMORE(v, hi) == IF v > hi THEN hi ELSE v

NOLESS(v, lo) == IF v < lo THEN lo ELSE v

\* mutant: NOLESS(segments, 1U) is missing
SegmentCount_NoFloor ==
    LET seglimit == Uint16(LROUND(SurdMul(cart_xy_mm, RECIPROCAL(DELTA_SEGMENT_MIN_LENGTH))))
        preferred == Uint16(LROUND(SurdMul(cart_xy_mm, kfeed)))
    IN  IF IS_KINEMATIC THEN NOMORE(preferred, seglimit) ELSE seglimit

\* lines 366-375: the segment count
SegmentCount ==
    LET seglimit == Uint16(LROUND(SurdMul(cart_xy_mm, RECIPROCAL(DELTA_SEGMENT_MIN_LENGTH))))
        preferred == Uint16(LROUND(SurdMul(cart_xy_mm, kfeed)))
    IN  NOLESS(IF IS_KINEMATIC THEN NOMORE(preferred, seglimit) ELSE seglimit, 1)

\* lines 376 and 383: diff = total * inv_segments
Diff(n) == [x |-> FDiv(total.x, R(n)),
            y |-> FDiv(total.y, R(n)),
            z |-> FDiv(total.z, R(n))]

diff == Diff(nseg0)

\* The segmenter discards what planner.buffer_line returns (lines 394, 398,
\* 469), so its log entries carry ok = TRUE and the answer is not drawn.
PoseAdd(p, d) == [x |-> FAdd(p.x, d.x), y |-> FAdd(p.y, d.y), z |-> FAdd(p.z, d.z)]

SegUnchanged ==
    UNCHANGED <<mode, zraise, kin, kfeed, leveling_active, z_values, destination,
                current_position, cnt, loc, start0>>

\* mutant: the reachability test is missing
SegBegin_NoReachTest ==
    /\ pc = "idle"
    /\ mode = "segmented"
    /\ nreach' = nreach
    /\ segments' = SegmentCount
    /\ nseg0' = SegmentCount
    /\ ret' = ret
    /\ IF ~leveling_active \/ ~leveling_active_at_z(destination.z)
       THEN pc' = "plain" /\ raw' = current_position
       ELSE pc' = "cellsetup" /\ raw' = PoseAdd(current_position, Diff(SegmentCount))
    /\ UNCHANGED <<icell, cell, z_cxy0, z_cxym, corners, sink, beyond, reads>>
    /\ SegUnchanged

\* mutant: "did not move" reported as false
SegBegin_SkipReturnsFalse ==
    /\ pc = "idle"
    /\ mode = "segmented"
    /\ nreach' = nreach + 1
    /\ IF ~position_is_reachable(destination)
       THEN /\ ret' = "false"
            /\ pc' = "done"
            /\ UNCHANGED <<segments, nseg0, raw>>
       ELSE /\ segments' = SegmentCount
            /\ nseg0' = SegmentCount
            /\ ret' = ret
            /\ IF ~leveling_active \/ ~leveling_active_at_z(destination.z)
               THEN pc' = "plain" /\ raw' = current_position
               ELSE pc' = "cellsetup" /\ raw' = PoseAdd(current_position, Diff(SegmentCount))
    /\ UNCHANGED <<icell, cell, z_cxy0, z_cxym, corners, sink, beyond, reads>>
    /\ SegUnchanged

\* lines 358-391 and 411: reachability, segment count, choice of path
SegBegin ==
    /\ pc = "idle"
    /\ mode = "segmented"
    /\ nreach' = nreach + 1
    /\ IF ~position_is_reachable(destination)
       THEN /\ ret' = "true"
            /\ pc' = "done"
            /\ UNCHANGED <<segments, nseg0, raw>>
       ELSE /\ segments' = SegmentCount
            /\ nseg0' = SegmentCount
            /\ ret' = ret
            /\ IF ~leveling_active \/ ~leveling_active_at_z(destination.z)
               THEN pc' = "plain" /\ raw' = current_position
               ELSE pc' = "cellsetup" /\ raw' = PoseAdd(current_position, Diff(SegmentCount))
    /\ UNCHANGED <<icell, cell, z_cxy0, z_cxym, corners, sink, beyond, reads>>
    /\ SegUnchanged

\* mutant: the pose is handed over before raw += diff
PlainStep_EmitFirst ==
    /\ pc = "plain"
    /\ Uint16(segments - 1) # 0
    /\ segments' = Uint16(segments - 1)
    /\ raw' = PoseAdd(raw, diff)
    /\ sink' = Emit(raw.x, raw.y, raw.z, raw.z, TRUE)
    /\ UNCHANGED <<pc, icell, cell, z_cxy0, z_cxym, corners, ret, nreach, nseg0, beyond, reads>>
    /\ SegUnchanged

\* lines 392-397: one iteration of the plain loop
PlainStep ==
    /\ pc = "plain"
    /\ Uint16(segments - 1) # 0
    /\ segments' = Uint16(segments - 1)
    /\ raw' = PoseAdd(raw, diff)
    /\ sink' = Emit(raw'.x, raw'.y, raw'.z, raw'.z, TRUE)
    /\ UNCHANGED <<pc, icell, cell, z_cxy0, z_cxym, corners, ret, nreach, nseg0, beyond, reads>>
    /\ SegUnchanged

\* lines 392 and 398-401: the plain loop ends, last segment to the destination
PlainFinal ==
    /\ pc = "plain"
    /\ Uint16(segments - 1) = 0
    /\ segments' = 0
    /\ sink' = Emit(destination.x, destination.y, destination.z, destination.z, TRUE)
    /\ ret' = "false"
    /\ pc' = "done"
    /\ UNCHANGED <<raw, icell, cell, z_cxy0, z_cxym, corners, nreach, nseg0, beyond, reads>>
    /\ SegUnchanged

\* What a read of z_values[i][j] outside the table may yield: whatever lies
\* behind the table, drawn at the first such read of a request.
Garbage == {NaN, R(7)}

Cell(p) ==
    [x |-> constrain(Trunc(FMul(FSub(p.x, R(MESH_MIN_X)), RECIPROCAL(R(MESH_X_DIST)))),
                     0, GRID_MAX_CELLS_X),
     y |-> constrain(Trunc(FMul(FSub(p.y, R(MESH_MIN_Y)), RECIPROCAL(R(MESH_Y_DIST)))),
                     0, GRID_MAX_CELLS_Y)]

ReadSample(i, j, g) == ZeroIfNaN(IF InTable(i, j) THEN z_values[i][j] ELSE g)

\* lines 429-432: the indices of the four reads for cell ic
CornerIndices(ic) ==
    {<<ic.x, ic.y>>, <<ic.x + 1, ic.y>>, <<ic.x, ic.y + 1>>, <<ic.x + 1, ic.y + 1>>}

\* lines 429-437: the four samples, undefined ones replaced by 0
ReadCorners(ic, g) ==
    <<ReadSample(ic.x, ic.y, g), ReadSample(ic.x + 1, ic.y, g),
      ReadSample(ic.x, ic.y + 1, g), ReadSample(ic.x + 1, ic.y + 1, g)>>

\* lines 442-443: slopes along y0 and y1
Xmy0(cs) == FMul(FSub(cs[2], cs[1]), RECIPROCAL(R(MESH_X_DIST)))

Xmy1(cs) == FMul(FSub(cs[4], cs[3]), RECIPROCAL(R(MESH_X_DIST)))

z_xmy0 == Xmy0(corners)

z_xmy1 == Xmy1(corners)

\* lines 458-459: per-segment adjustments
z_sxy0 == FMul(z_xmy0, diff.x)

z_sxym == FMul(FMul(FSub(z_xmy1, z_xmy0), RECIPROCAL(R(MESH_Y_DIST))), diff.x)

\* lines 422-450: invariants of the mesh cell under raw
CellSetup ==
    /\ pc = "cellsetup"
    /\ \E g \in IF beyond # <<>> THEN {beyond}
               ELSE IF Cell(raw).x = GRID_MAX_CELLS_X \/ Cell(raw).y = GRID_MAX_CELLS_Y
               THEN Garbage ELSE {<<>>} :
           LET ic == Cell(raw)
               cs == ReadCorners(ic, g)
               ncell == [x |-> FSub(raw.x, get_mesh_x(ic.x)), y |-> FSub(raw.y, get_mesh_y(ic.y))]
               cxy0 == FAdd(cs[1], FMul(Xmy0(cs), ncell.x))
               cxy1 == FAdd(cs[3], FMul(Xmy1(cs), ncell.x))
           IN  /\ beyond' = g
               /\ reads' = reads \cup CornerIndices(ic)
               /\ icell' = ic
               /\ corners' = cs
               /\ cell' = ncell
               /\ z_cxy0' = cxy0
               /\ z_cxym' = FMul(FSub(cxy1, cxy0), RECIPROCAL(R(MESH_Y_DIST)))
    /\ pc' = "segloop"
    /\ UNCHANGED <<segments, raw, sink, ret, nreach, nseg0>>
    /\ SegUnchanged

\* mutant: z_cxym += z_sxym of line 485 is missing
SegmentStep_SlopeKept ==
    /\ pc = "segloop"
    /\ segments' = Uint16(segments - 1)
    /\ LET last == segments' = 0
           here == IF last THEN destination ELSE raw
           z_cxcy == FMul(FAdd(z_cxy0, FMul(z_cxym, cell.y)),
                          fade_scaling_factor_for_z(destination.z))
           ncell == [x |-> FAdd(cell.x, diff.x), y |-> FAdd(cell.y, diff.y)]
       IN  /\ sink' = Emit(here.x, here.y, FAdd(here.z, z_cxcy), here.z, TRUE)
           /\ IF last
              THEN /\ ret' = "false"
                   /\ pc' = "done"
                   /\ raw' = here
                   /\ UNCHANGED <<cell, z_cxy0, z_cxym>>
              ELSE /\ ret' = ret
                   /\ raw' = PoseAdd(here, diff)
                   /\ cell' = ncell
                   /\ IF ~WITHIN(ncell.x, R(0), R(MESH_X_DIST))
                         \/ ~WITHIN(ncell.y, R(0), R(MESH_Y_DIST))
                      THEN pc' = "cellsetup" /\ UNCHANGED <<z_cxy0, z_cxym>>
                      ELSE /\ pc' = "segloop"
                           /\ z_cxy0' = FAdd(z_cxy0, z_sxy0)
                           /\ z_cxym' = z_cxym
    /\ UNCHANGED <<icell, corners, nreach, nseg0, beyond, reads>>
    /\ SegUnchanged

\* lines 463-485: one segment within the mesh cell
SegmentStep ==
    /\ pc = "segloop"
    /\ segments' = Uint16(segments - 1)
    /\ LET last == segments' = 0
           here == IF last THEN destination ELSE raw
           z_cxcy == FMul(FAdd(z_cxy0, FMul(z_cxym, cell.y)),
                          fade_scaling_factor_for_z(destination.z))
           ncell == [x |-> FAdd(cell.x, diff.x), y |-> FAdd(cell.y, diff.y)]
       IN  /\ sink' = Emit(here.x, here.y, FAdd(here.z, z_cxcy), here.z, TRUE)
           /\ IF last
              THEN /\ ret' = "false"
                   /\ pc' = "done"
                   /\ raw' = here
                   /\ UNCHANGED <<cell, z_cxy0, z_cxym>>
              ELSE /\ ret' = ret
                   /\ raw' = PoseAdd(here, diff)
                   /\ cell' = ncell
                   /\ IF ~WITHIN(ncell.x, R(0), R(MESH_X_DIST))
                         \/ ~WITHIN(ncell.y, R(0), R(MESH_Y_DIST))
                      THEN pc' = "cellsetup" /\ UNCHANGED <<z_cxy0, z_cxym>>
                      ELSE /\ pc' = "segloop"
                           /\ z_cxy0' = FAdd(z_cxy0, z_sxy0)
                           /\ z_cxym' = FAdd(z_cxym, z_sxym)
    /\ UNCHANGED <<icell, corners, nreach, nseg0, beyond, reads>>
    /\ SegUnchanged

----------------------------------------------------------------------------
(* Move requests                                                            *)

\* coordinates in fifths of a mesh cell: off the mesh on either side, inside
\* a cell, next to a gridline on both sides, and on a gridline
Fifths == {-2, 1, 4, 5, 6, 12}

\* a mesh of GRID_MAX_CELLS + 1 points a side
Flat11 == [i \in 0..GRID_MAX_CELLS_X |-> [j \in 0..GRID_MAX_CELLS_Y |->
              IF i = 1 /\ j = 1 THEN R(2) ELSE R(0)]]

Warped == [i \in 0..GRID_MAX_CELLS_X |-> [j \in 0..GRID_MAX_CELLS_Y |->
              R(i + 2 * j + 3 * i * j)]]

Holed == [i \in 0..GRID_MAX_CELLS_X |-> [j \in 0..GRID_MAX_CELLS_Y |->
              IF i = 1 /\ j = 0 THEN NaN ELSE R(1 + i + 2 * j + 3 * i * j)]]

Meshes == {Flat11, Warped, Holed}

Coord(u) == R(u * (MESH_X_DIST \div 5))

Idle ==
    /\ pc = "idle"
    /\ icell = [x |-> 0, y |-> 0]
    /\ cnt = [x |-> 0, y |-> 0]
    /\ loc = NoLocals
    /\ segments = 0
    /\ raw = current_position
    /\ cell = [x |-> R(0), y |-> R(0)]
    /\ z_cxy0 = R(0)
    /\ z_cxym = R(0)
    /\ corners = <<R(0), R(0), R(0), R(0)>>
    /\ sink = <<>>
    /\ ret = "none"
    /\ start0 = current_position
    /\ nreach = 0
    /\ nseg0 = 0
    /\ beyond = <<>>
    /\ reads = {}

\* requests to the splitter
InitCartesian ==
    /\ mode = "cartesian"
    /\ kin = "cartesian"
    /\ kfeed = R(1)
    /\ leveling_active = TRUE
    /\ z_values \in Meshes
    /\ zraise \in IF z_values = Warped THEN BOOLEAN ELSE {FALSE}
    /\ \E sx \in Fifths, sy \in Fifths, ex \in Fifths, ey \in Fifths, ez \in {0, 5} :
           /\ current_position = [x |-> Coord(sx), y |-> Coord(sy), z |-> R(0)]
           /\ destination = [x |-> Coord(ex), y |-> Coord(ey), z |-> R(ez)]

\* requests to the segmenter of a Cartesian build; 20 is out of reach
InitSegmented ==
    /\ mode = "segmented"
    /\ kin = "cartesian"
    /\ kfeed = R(1)
    /\ zraise = FALSE
    /\ leveling_active \in BOOLEAN
    /\ z_values \in IF leveling_active THEN Meshes ELSE {Warped}
    /\ \E sx \in {-2, 1, 6}, sy \in {1, 4, 12}, ex \in {-2, 4, 5, 10, 12, 20},
          ey \in {-2, 1, 4, 6, 12}, ez \in IF leveling_active THEN {0, 5, 10} ELSE {5} :
           /\ current_position = [x |-> Coord(sx), y |-> Coord(sy), z |-> R(0)]
           /\ destination = [x |-> Coord(ex), y |-> Coord(ey), z |-> R(ez)]

\* requests to the segmenter of a kinematic build, at a low and a high ratio
\* of segments_per_second to feed rate
InitKinematic ==
    /\ mode = "segmented"
    /\ kin \in {"scara", "delta"}
    /\ kfeed \in {<<1, 2>>, R(20)}
    /\ zraise = FALSE
    /\ leveling_active \in BOOLEAN
    /\ z_values = Warped
    /\ \E sx \in {4}, sy \in {4, 6}, ex \in {4, 6, 9}, ey \in {4, 6}, ez \in {0, 5} :
           /\ current_position = [x |-> Coord(sx), y |-> Coord(sy), z |-> R(0)]
           /\ destination = [x |-> Coord(ex), y |-> Coord(ey), z |-> R(ez)]

Init == (InitCartesian \/ InitSegmented \/ InitKinematic) /\ Idle

Next ==
    \/ CartBegin
    \/ VerticalStep
    \/ VerticalExit
    \/ HorizontalStep
    \/ HorizontalExit
    \/ GeneralStep
    \/ GeneralExit
    \/ CheckArrived
    \/ FinalMove
    \/ SegBegin
    \/ PlainStep
    \/ PlainFinal
    \/ CellSetup
    \/ SegmentStep

Spec == Init /\ [][Next]_vars

Running == pc # "done"

\* The routines run to completion once called: the sink always returns.  Until
\* the return some step of Next is possible (ENABLED <<Next>>_vars is Running),
\* so the second conjunct is weak fairness of Next, written out.
Fairness ==
    /\ WF_vars(VerticalExit) /\ WF_vars(HorizontalExit) /\ WF_vars(GeneralExit)
    /\ ([]<>(~Running) \/ []<><<Next>>_vars)

FairSpec == Spec /\ Fairness

----------------------------------------------------------------------------
(* The segment count alone (lines 361-377), over longer travels              *)

MaxTravel == 40

\* lines 361-377 of a request that passed the reachability test
CountSegments ==
    /\ pc = "idle"
    /\ mode = "segmented"
    /\ segments' = SegmentCount
    /\ nseg0' = SegmentCount
    /\ pc' = "counted"
    /\ UNCHANGED <<icell, cell, z_cxy0, z_cxym, corners, sink, beyond, reads, raw, ret, nreach>>
    /\ SegUnchanged

\* travels of up to MaxTravel mm, and travels past 65535 minimum lengths
InitCount ==
    /\ mode = "segmented"
    /\ kin \in {"cartesian", "leveled", "scara", "delta"}
    /\ kfeed \in {<<1, 2>>, R(4), R(20)}
    /\ zraise = FALSE
    /\ leveling_active = FALSE
    /\ z_values = Warped
    /\ current_position = [x |-> R(0), y |-> R(0), z |-> R(0)]
    /\ \E ex \in (0..MaxTravel) \cup {6553, 6554, 6555, 6560, 16385, 16390}, ey \in {0, 1, 3} :
           /\ ex > MaxTravel => ey = 0
           /\ destination = [x |-> R(ex), y |-> R(ey), z |-> R(0)]
    /\ Idle

SpecCount == InitCount /\ [][CountSegments]_vars

----------------------------------------------------------------------------
(* Vocabulary of the properties                                             *)

Returned == pc = "done"

Calls == Len(sink)

LastCall == sink[Len(sink)]

AllAccepted == \A i \in 1..Len(sink) : sink[i].ok

SameCellRequest == cell_indexes(start0) = cell_indexes(destination)

RaiseApplies == zraise /\ OffMesh

DestCorners ==
    LET ic == cell_indexes(destination)
    IN  <<z_values[ic.x][ic.y], z_values[ic.x + 1][ic.y],
          z_values[ic.x][ic.y + 1], z_values[ic.x + 1][ic.y + 1]>>

\* bilinear interpolation of four corner samples cs at the destination's
\* fractional position in its cell, as the weighted sum of the corners
BilinearAtDest(cs) ==
    LET ic == cell_indexes(destination)
        u == FDiv(FSub(destination.x, get_mesh_x(ic.x)), R(MESH_X_DIST))
        v == FDiv(FSub(destination.y, get_mesh_y(ic.y)), R(MESH_Y_DIST))
        nu == FSub(R(1), u)
        nv == FSub(R(1), v)
    IN  FAdd(FAdd(FMul(FMul(nu, nv), cs[1]), FMul(FMul(u, nv), cs[2])),
             FAdd(FMul(FMul(nu, v), cs[3]), FMul(FMul(u, v), cs[4])))

ScaledBilinearAtDest(cs) ==
    FMul(fade_scaling_factor_for_z(destination.z), BilinearAtDest(cs))

----------------------------------------------------------------------------
\* C1: a splitter move whose start and destination map to the same cell, with
\* the four corner samples of that cell defined and no constant raise applying,
\* makes exactly one sink call, at the destination's X and Y, with Z equal to
\* destination Z plus scale(destination Z) times the bilinear interpolation of
\* the four corners at the destination's position in the cell.
C1_SameCellOneCall ==
    (/\ mode = "cartesian"
     /\ Returned
     /\ SameCellRequest
     /\ \A k \in 1..4 : ~isnan(DestCorners[k])
     /\ ~RaiseApplies)
    => /\ Calls = 1
       /\ sink[1].x = destination.x
       /\ sink[1].y = destination.y
       /\ sink[1].z = FAdd(destination.z, ScaledBilinearAtDest(DestCorners))

C1_Witness ==
    /\ mode = "cartesian"
    /\ Returned
    /\ SameCellRequest
    /\ \A k \in 1..4 : ~isnan(DestCorners[k])
    /\ ~RaiseApplies
    /\ OffMesh
    /\ start0.x # destination.x
    /\ Calls = 1
    /\ sink[1].z # destination.z
    /\ fade_scaling_factor_for_z(destination.z) = <<1, 2>>

\* C2: whenever a request has emitted a sub-move and returned, the last pose
\* handed to the sink has the destination's X and Y, and its Z before the mesh
\* correction is the destination's Z (both algorithms, every path).
C2_DestinationExact ==
    (Returned /\ Calls >= 1)
    => /\ LastCall.x = destination.x
       /\ LastCall.y = destination.y
       /\ LastCall.base = destination.z

C2_Witness ==
    /\ Returned
    /\ mode = "cartesian"
    /\ Calls >= 3
    /\ ~AllAccepted
    /\ LastCall.z # LastCall.base
    /\ destination.z # R(0)

\* C3: in the splitter's horizontal and general cases, once the sink has
\* answered "not accepted" the splitter makes no further sink call for the
\* request: only the last call of a request can be a rejected one.
C3_StopOnRejection ==
    (mode = "cartesian" /\ loc.iadd.x # 0)
    => \A i \in 1..(Calls - 1) : sink[i].ok

\* the pose the sink accepted last, or the start pose when it accepted none
RECURSIVE LastAcceptedUpTo(_)
LastAcceptedUpTo(n) ==
    IF n = 0 THEN [x |-> start0.x, y |-> start0.y, z |-> start0.z]
    ELSE IF sink[n].ok THEN [x |-> sink[n].x, y |-> sink[n].y, z |-> sink[n].base]
    ELSE LastAcceptedUpTo(n - 1)

\* C4: when the sink has rejected a sub-move of a splitter request, then on
\* return the current position is the pose of the last accepted sub-move (the
\* start pose when none was accepted) and is not the requested destination.
C4_PositionAfterRejection ==
    (mode = "cartesian" /\ Returned /\ ~AllAccepted)
    => /\ current_position = LastAcceptedUpTo(Calls)
       /\ current_position # destination

\* C5: an unreachable destination makes the segmenter return without a sink
\* call and without touching the current position; reachability is evaluated
\* once, before any sink call, and a request that passed it always ends with a
\* sub-move to the destination.
C5_UnreachableSkipped ==
    mode = "segmented"
    => /\ nreach <= 1
       /\ (Calls > 0 => nreach = 1 /\ position_is_reachable(destination))
       /\ current_position = start0
       /\ (Returned /\ ~position_is_reachable(destination) => Calls = 0)
       /\ (Returned /\ position_is_reachable(destination)
             => /\ Calls >= 1
                /\ LastCall.x = destination.x
                /\ LastCall.y = destination.y)

C5_Witness ==
    /\ mode = "segmented"
    /\ Returned
    /\ ~position_is_reachable(destination)
    /\ leveling_active
    /\ nreach = 1
    /\ Calls = 0

\* C6 as stated: the segmenter returns false when the destination was
\* unreachable and the move was skipped, and true when at least one sub-move
\* was emitted.
C6_ReturnsTrueWhenMoved ==
    (mode = "segmented" /\ Returned)
    => /\ (~position_is_reachable(destination) => ret = "false")
       /\ (Calls >= 1 => ret = "true")

\* C6 amended: the segmenter returns true when the destination was unreachable
\* and the move was skipped (no sink call), and false when at least one
\* sub-move was emitted.
C6_ReturnsTrueWhenSkipped ==
    (mode = "segmented" /\ Returned)
    => /\ (~position_is_reachable(destination) => ret = "true" /\ Calls = 0)
       /\ (Calls >= 1 => ret = "false")
       /\ ret \in {"true", "false"}

C6_Witness ==
    /\ mode = "segmented"
    /\ Returned
    /\ ret = "true"
    /\ Calls = 0
    /\ ~leveling_active
    /\ start0.x # destination.x

DestCornersOr0 ==
    <<ZeroIfNaN(DestCorners[1]), ZeroIfNaN(DestCorners[2]),
      ZeroIfNaN(DestCorners[3]), ZeroIfNaN(DestCorners[4])>>

UndefinedDestCorner == \E k \in 1..4 : isnan(DestCorners[k])

Along(p) ==
    FAdd(FMul(FSub(p.x, start0.x), FSub(destination.x, start0.x)),
         FMul(FSub(p.y, start0.y), FSub(destination.y, start0.y)))

\* C8: with an always-accepting sink, no two consecutive poses handed to the
\* sink by the splitter have the same (X, Y), each pose lies further along the
\* direction of travel than the one before it, and none lies beyond the
\* destination.
C8_MonotonicConvergence ==
    (mode = "cartesian" /\ AllAccepted)
    => /\ \A i \in 1..(Calls - 1) :
              /\ (sink[i].x # sink[i + 1].x \/ sink[i].y # sink[i + 1].y)
              /\ FLt(Along(sink[i]), Along(sink[i + 1]))
       /\ \A i \in 1..Calls : FLe(Along(sink[i]), Along(destination))

GeneralRequest == mode = "cartesian" /\ loc.iadd.x # 0 /\ loc.iadd.y # 0

DeltaColumn == Abs(cell_indexes(start0).x - cell_indexes(destination).x)

DeltaRow == Abs(cell_indexes(start0).y - cell_indexes(destination).y)

OnGridline(p) ==
    \/ \E k \in 0..GRID_MAX_CELLS_X : p.x = get_mesh_x(k)
    \/ \E k \in 0..GRID_MAX_CELLS_Y : p.y = get_mesh_y(k)

OnRequestedLine(p) ==
    FMul(FSub(p.x, start0.x), FSub(destination.y, start0.y))
        = FMul(FSub(p.y, start0.y), FSub(destination.x, start0.x))

StrictlyBetween(a, p, q) == (FLt(p, a) /\ FLt(a, q)) \/ (FLt(q, a) /\ FLt(a, p))

\* the straight sub-move from p to q passes a gridline at which the (clamped)
\* cell index changes
SpansCells(p, q) ==
    \/ \E k \in 1..(GRID_MAX_CELLS_X - 1) : StrictlyBetween(get_mesh_x(k), p.x, q.x)
    \/ \E k \in 1..(GRID_MAX_CELLS_Y - 1) : StrictlyBetween(get_mesh_y(k), p.y, q.y)

PoseBefore(i) == IF i = 1 THEN start0 ELSE sink[i - 1]

CrossingsComplete ==
    /\ Calls - 1 = DeltaColumn + DeltaRow
    /\ \A i \in 1..(Calls - 1) : OnGridline(sink[i]) /\ OnRequestedLine(sink[i])

Counted == pc = "counted"

MinLength == DELTA_SEGMENT_MIN_LENGTH

\* the count before it is stored in the 16-bit counter
UnwrappedLimit == LROUND(SurdMul(cart_xy_mm, RECIPROCAL(MinLength)))

\* C10 as stated: the segment count is at least 1 and the XY length of a
\* segment, the XY distance divided by the count, is never greater than
\* DELTA_SEGMENT_MIN_LENGTH.
C10_LengthAtMostMin ==
    Counted
    => /\ nseg0 >= 1
       /\ SurdLe(cart_xy_mm, FMul(R(nseg0), MinLength))

\* C10 amended: the segment count is at least 1, and DELTA_SEGMENT_MIN_LENGTH
\* bounds the segment length from below: with a count n of 2 or more the XY
\* length of a segment (XY distance / n) is at least (1 - 1/(2n)) minimum
\* lengths, for the Cartesian and the kinematic count, also when the 16-bit
\* counter wraps.
C10_LengthAtLeastMin ==
    Counted
    => /\ nseg0 >= 1
       /\ (nseg0 >= 2
             => SurdGe(SurdMul(cart_xy_mm, R(2)), FMul(R(2 * nseg0 - 1), MinLength)))

C10_Witness ==
    /\ Counted
    /\ kin = "delta"
    /\ UnwrappedLimit >= 65536
    /\ nseg0 >= 2
    /\ nseg0 < 100

InLoop == pc \in {"vloop", "hloop", "gloop", "plain", "segloop"}

\* the integer counter of the loop at position p, for cell index ic, crossing
\* counters cn and segment count sg
LoopCounter(p, ic, cn, sg) ==
    CASE p = "vloop" -> Abs(loc.iend.y + loc.ineg.y - ic.y)
      [] p = "hloop" -> Abs(loc.iend.x + loc.ineg.x - ic.x)
      [] p = "gloop" -> cn.x + cn.y
      [] OTHER       -> sg

\* a step from a loop either leaves for the arrival test, FINAL_MOVE or the
\* return, or has decreased the counter of that loop
IterationDecreases ==
    InLoop
    => \/ pc' \in {"check", "final", "done"}
       \/ LoopCounter(pc, icell', cnt', segments') < LoopCounter(pc, icell, cnt, segments)

\* every segment of the request lies off the mesh in X
AllOffMeshInX == \A i \in 1..Calls : FLt(sink[i].x, R(MESH_MIN_X))

\* C11: with a sink that always returns, every call of the splitter and of the
\* segmenter returns; every loop iteration decreases the integer counter of its
\* loop; the general loop makes at most |delta column| + |delta row|
\* iterations (one sink call each); and the segmenter makes as many sink calls
\* as the segment count it computed, also when cells are re-chosen after every
\* segment.
C11_Termination ==
    /\ <>Returned
    /\ [][IterationDecreases]_vars
    /\ [](GeneralRequest /\ pc \in {"gloop", "check", "final"}
            => Calls <= DeltaColumn + DeltaRow)
    /\ [](mode = "segmented" /\ Returned /\ position_is_reachable(destination)
            => Calls = nseg0)

C11_Witness ==
    /\ mode = "segmented"
    /\ Returned
    /\ leveling_active
    /\ leveling_active_at_z(destination.z)
    /\ nseg0 >= 10
    /\ Calls = nseg0
    /\ AllOffMeshInX

\* the example request: 50 mm mesh, every sample 0 but sample (1,1) = 2,
\* (40,40,0) -> (60,60,0) at fade scale 1, accepted throughout, returned
ExampleRun ==
    /\ mode = "cartesian"
    /\ z_values = Flat11
    /\ MESH_X_DIST = 50
    /\ start0 = [x |-> R(40), y |-> R(40), z |-> R(0)]
    /\ destination = [x |-> R(60), y |-> R(60), z |-> R(0)]
    /\ fade_scaling_factor_for_z(destination.z) = R(1)
    /\ AllAccepted
    /\ Returned

\* the Z correction of the i-th pose handed to the sink
Correction(i) == FSub(sink[i].z, sink[i].base)

\* C12 as stated: the example request makes exactly 3 sink calls and the Z
\* corrections of the three poses increase toward the destination.
C12_ExampleIncreasing ==
    ExampleRun
    => /\ Calls = 3
       /\ FLe(Correction(1), Correction(2))
       /\ FLe(Correction(2), Correction(3))

\* C12 amended: the example request makes exactly 3 sink calls: both gridline
\* crossings at the grid point (50,50), each with correction 2, then the
\* destination (60,60) with correction 1.28; the corrections do not increase,
\* they fall from the peak of the mesh toward the destination.
C12_ExampleFromPeak ==
    ExampleRun
    => /\ Calls = 3
       /\ \A i \in 1..2 : sink[i].x = R(50) /\ sink[i].y = R(50) /\ Correction(i) = R(2)
       /\ sink[3].x = R(60) /\ sink[3].y = R(60)
       /\ Correction(3) = <<32, 25>>
       /\ FLt(Correction(3), Correction(2))

C12_Witness == ExampleRun /\ Calls = 3 /\ GeneralRequest

\* the request passed the reachability test and takes the path of line 391
PlainPath ==
    /\ mode = "segmented"
    /\ pc \in {"plain", "done"}
    /\ nseg0 >= 1
    /\ (~leveling_active \/ ~leveling_active_at_z(destination.z))

\* start + i * (destination - start) / n
Subdivision(i, n) ==
    [x |-> FAdd(start0.x, FDiv(FMul(R(i), FSub(destination.x, start0.x)), R(n))),
     y |-> FAdd(start0.y, FDiv(FMul(R(i), FSub(destination.y, start0.y)), R(n))),
     z |-> FAdd(start0.z, FDiv(FMul(R(i), FSub(destination.z, start0.z)), R(n)))]

\* the i-th sink call is at pose p, with no Z correction
CallAt(i, p) ==
    /\ sink[i].x = p.x
    /\ sink[i].y = p.y
    /\ sink[i].z = p.z
    /\ sink[i].base = p.z

\* C13: with leveling inactive, or not active at the destination's Z, the
\* segmenter with segment count N makes exactly N sink calls, the i-th
\* (1 <= i < N) at start + i * (destination - start) / N, the N-th at the
\* destination, none with a Z correction; it reads no mesh sample and leaves
\* the current position alone.
C13_PlainSubdivision ==
    PlainPath
    => /\ Calls <= nseg0
       /\ (Returned => Calls = nseg0)
       /\ \A i \in 1..Calls :
              IF i < nseg0 THEN CallAt(i, Subdivision(i, nseg0))
              ELSE CallAt(i, destination)
       /\ reads = {}
       /\ current_position = start0

C13_Witness ==
    /\ PlainPath
    /\ Returned
    /\ leveling_active
    /\ nseg0 >= 3
    /\ Calls = nseg0
    /\ destination.z # start0.z
    /\ destination.x # start0.x
    /\ destination.y # start0.y

\* bilinear interpolation of the corner samples cs at the offset (ox, oy)
\* from the lower left corner of a cell: along X on both edges, then along Y
BilinearAt(cs, ox, oy) ==
    LET u == FDiv(ox, R(MESH_X_DIST))
        v == FDiv(oy, R(MESH_Y_DIST))
        lower == FAdd(cs[1], FMul(u, FSub(cs[2], cs[1])))
        upper == FAdd(cs[3], FMul(u, FSub(cs[4], cs[3])))
    IN  FAdd(lower, FMul(v, FSub(upper, lower)))

LeveledPath ==
    /\ mode = "segmented"
    /\ nseg0 >= 1
    /\ leveling_active
    /\ leveling_active_at_z(destination.z)

\* the sink call a step has just made: its correction is the fade-scaled
\* bilinear interpolation of the samples of the current cell at the pose's
\* offset in that cell, and its Z before the correction is the uncorrected Z
\* of the subdivision
DirectInterpolation ==
    LET n == Len(sink')
        e == sink'[n]
        ox == FSub(e.x, get_mesh_x(icell.x))
        oy == FSub(e.y, get_mesh_y(icell.y))
    IN  /\ FSub(e.z, e.base)
             = FMul(fade_scaling_factor_for_z(destination.z), BilinearAt(corners, ox, oy))
        /\ e.base = IF n < nseg0 THEN Subdivision(n, nseg0).z ELSE destination.z
        /\ pc' # "done" => raw'.z = Subdivision(n + 1, nseg0).z

\* C14: every segment the leveled path emits carries the correction that the
\* fade-scaled bilinear interpolation of the current cell's four samples
\* (undefined ones as 0) gives, recomputed from scratch at the segment's XY
\* offset in the cell: first segment of a cell, later segments, and the last
\* one at the destination; and the pose carried on does not include the
\* correction.
C14_IncrementalIsDirect ==
    [][(LeveledPath /\ sink' # sink) => DirectInterpolation]_vars

C14_Witness ==
    /\ LeveledPath
    /\ Returned
    /\ z_values = Holed
    /\ Calls >= 6
    /\ Cardinality(reads) > 4
    /\ fade_scaling_factor_for_z(destination.z) = <<1, 2>>
    /\ \E i \in 1..(Calls - 2) :
           /\ cell_indexes(sink[i]) = cell_indexes(sink[i + 2])
           /\ sink[i].z # sink[i].base
           /\ Correction(i + 1) # Correction(i)
    /\ LastCall.z # LastCall.base

\* C15: every read of z_values in the segmenter's leveled path uses a column
\* index in 0..GRID_MAX_CELLS_X and a row index in 0..GRID_MAX_CELLS_Y, also
\* for positions at or beyond the maximum mesh coordinate.
C15_ReadsInsideTable ==
    mode = "segmented" => \A r \in reads : InTable(r[1], r[2])

====
